---- MODULE Spec2Model ----
(***************************************************************************)
(* Model of app/routes/_index.tsx of karan-contrast-checker: the colour    *)
(* normaliser, the WCAG luminance / contrast computation, the compliance   *)
(* classification, the Remix form action and the live-preview component.   *)
(*                                                                         *)
(* A JavaScript string is a sequence of one-character strings.  A          *)
(* JavaScript value is a record [t |-> type tag, s |-> sequence]; the      *)
(* outcome of a call is [threw |-> BOOLEAN, val |-> value].                *)
(***************************************************************************)
EXTENDS Integers, Sequences, FiniteSets, TLC

VARIABLES pc, input, normalized, fgHex, bgHex, ratio,
          ratioIn, levels, form, response,
          lang, fgInput, bgInput, fgIsValid, bgIsValid, effectPending,
          view, data

harness == <<pc, input, normalized, fgHex, bgHex, ratio,
             ratioIn, levels, form, response>>
index == <<lang, fgInput, bgInput, fgIsValid, bgIsValid, effectPending,
           view, data>>
vars == <<harness, index>>

(***************************************************************************)
(* Bounds of the explored inputs.                                          *)
(***************************************************************************)
MaxPad == 1
MaxHash == 2
MaxBodyLen == 6

(***************************************************************************)
(* JavaScript values and call outcomes.                                    *)
(***************************************************************************)
JsString(s) == [t |-> "string", s |-> s]
JsNull == [t |-> "null", s |-> <<>>]
JsUndefined == [t |-> "undefined", s |-> <<>>]
JsObjectFunction == [t |-> "function", s |-> <<"O", "b", "j", "e", "c", "t">>]
JsObjectPrototype == [t |-> "object", s |-> <<>>]
JsNumber(n) == [t |-> "number", s |-> <<n>>]
JsError(msg) == [t |-> "error", s |-> <<msg>>]

Return(v) == [threw |-> FALSE, val |-> v]
Throw(msg) == [threw |-> TRUE, val |-> JsError(msg)]
NotCalled == [threw |-> FALSE, val |-> [t |-> "pending", s |-> <<>>]]

(***************************************************************************)
(* String primitives used by normalizeColor.                               *)
(***************************************************************************)
WhiteSpace == {" ", "\t", "\n", "\r", "\f"}
UpperChars == <<"A", "B", "C", "D", "E", "F", "G", "H", "I", "J", "K", "L", "M",
                "N", "O", "P", "Q", "R", "S", "T", "U", "V", "W", "X", "Y", "Z">>
LowerChars == <<"a", "b", "c", "d", "e", "f", "g", "h", "i", "j", "k", "l", "m",
                "n", "o", "p", "q", "r", "s", "t", "u", "v", "w", "x", "y", "z">>
HexDigits == {"0", "1", "2", "3", "4", "5", "6", "7", "8", "9",
              "a", "b", "c", "d", "e", "f"}

\* trim that forgets the trailing white space (String.prototype.trimStart)
trimStartOnly(s) ==
    LET keep == {i \in 1..Len(s) : s[i] \notin WhiteSpace}
    IN  IF keep = {} THEN <<>>
        ELSE SubSeq(s, CHOOSE i \in keep : \A j \in keep : i <= j, Len(s))

\* String.prototype.trim
trim(s) ==
    LET keep == {i \in 1..Len(s) : s[i] \notin WhiteSpace}
    IN  IF keep = {} THEN <<>>
        ELSE LET lo == CHOOSE i \in keep : \A j \in keep : i <= j
                 hi == CHOOSE i \in keep : \A j \in keep : i >= j
             IN  SubSeq(s, lo, hi)

toLowerCaseChar(c) ==
    IF \E i \in 1..26 : UpperChars[i] = c
    THEN LowerChars[CHOOSE i \in 1..26 : UpperChars[i] = c]
    ELSE c

\* a case fold that is forgotten
toLowerCaseOmitted(s) == s

\* String.prototype.toLowerCase
toLowerCase(s) == [i \in 1..Len(s) |-> toLowerCaseChar(s[i])]

\* val.startsWith("#")
startsWithHash(s) == Len(s) >= 1 /\ s[1] = "#"

\* val.replace(/^#/, ""): removes one "#" at the start, when there is one
replaceLeadingHash(s) == IF startsWithHash(s) THEN Tail(s) ELSE s

\* /^#[0-9a-f]{6}$/.test(val)
HexPatternTest(s) ==
    /\ Len(s) = 7
    /\ s[1] = "#"
    /\ \A i \in 2..7 : s[i] \in HexDigits

(***************************************************************************)
(* The named-colour table.                                                 *)
(***************************************************************************)
namedColors ==
    (<<"r", "e", "d">> :> <<"#", "f", "f", "0", "0", "0", "0">>) @@
    (<<"b", "l", "u", "e">> :> <<"#", "0", "0", "0", "0", "f", "f">>) @@
    (<<"g", "r", "e", "e", "n">> :> <<"#", "0", "0", "8", "0", "0", "0">>) @@
    (<<"b", "l", "a", "c", "k">> :> <<"#", "0", "0", "0", "0", "0", "0">>) @@
    (<<"w", "h", "i", "t", "e">> :> <<"#", "f", "f", "f", "f", "f", "f">>) @@
    (<<"g", "r", "a", "y">> :> <<"#", "8", "0", "8", "0", "8", "0">>) @@
    (<<"s", "i", "l", "v", "e", "r">> :> <<"#", "c", "0", "c", "0", "c", "0">>) @@
    (<<"l", "i", "m", "e">> :> <<"#", "0", "0", "f", "f", "0", "0">>) @@
    (<<"n", "a", "v", "y">> :> <<"#", "0", "0", "0", "0", "8", "0">>) @@
    (<<"m", "a", "r", "o", "o", "n">> :> <<"#", "8", "0", "0", "0", "0", "0">>) @@
    (<<"p", "u", "r", "p", "l", "e">> :> <<"#", "8", "0", "0", "0", "8", "0">>) @@
    (<<"o", "l", "i", "v", "e">> :> <<"#", "8", "0", "8", "0", "0", "0">>) @@
    (<<"t", "e", "a", "l">> :> <<"#", "0", "0", "8", "0", "8", "0">>) @@
    (<<"a", "q", "u", "a">> :> <<"#", "0", "0", "f", "f", "f", "f">>) @@
    (<<"y", "e", "l", "l", "o", "w">> :> <<"#", "f", "f", "f", "f", "0", "0">>) @@
    (<<"f", "u", "c", "h", "s", "i", "a">> :> <<"#", "f", "f", "0", "0", "f", "f">>) @@
    (<<"o", "r", "a", "n", "g", "e">> :> <<"#", "f", "f", "a", "5", "0", "0">>)

\* namedColors is an object literal, so a property read that misses the own
\* keys continues on Object.prototype.  After toLowerCase only the
\* all-lower-case inherited names can be asked for.
ObjectPrototype ==
    (<<"c", "o", "n", "s", "t", "r", "u", "c", "t", "o", "r">> :> JsObjectFunction) @@
    (<<"_", "_", "p", "r", "o", "t", "o", "_", "_">> :> JsObjectPrototype)

\* namedColors[val]
namedColorsGet(val) ==
    IF val \in DOMAIN namedColors THEN JsString(namedColors[val])
    ELSE IF val \in DOMAIN ObjectPrototype THEN ObjectPrototype[val]
    ELSE JsUndefined

\* truthiness of the value read from the table (no table value is "")
Truthy(v) == v.t \in {"function", "object"} \/ (v.t = "string" /\ v.s # <<>>)

(***************************************************************************)
(* normalizeColor                                                          *)
(***************************************************************************)
RECURSIVE StripHashes(_)
StripHashes(s) == IF startsWithHash(s) THEN StripHashes(Tail(s)) ELSE s

\* normalizeColor with /^#+/ stripped from every token before "#" is prepended
normalizeColorStripAll(in) ==
    LET val == toLowerCase(trim(in))
        hex == <<"#">> \o StripHashes(val)
    IN  IF Truthy(namedColorsGet(val)) THEN Return(namedColorsGet(val))
        ELSE IF ~HexPatternTest(hex) THEN Throw("Invalid color")
        ELSE Return(JsString(hex))

normalizeColor(in) ==
    LET val == toLowerCase(trim(in))
        hex == IF ~startsWithHash(val)
               THEN <<"#">> \o replaceLeadingHash(val)
               ELSE val
    IN  IF Truthy(namedColorsGet(val)) THEN Return(namedColorsGet(val))
        ELSE IF ~HexPatternTest(hex) THEN Throw("Invalid color")
        ELSE Return(JsString(hex))

(***************************************************************************)
(* Parts of the state a specification does not use.                        *)
(***************************************************************************)
NoResponse == [status |-> 0, body |-> JsUndefined]
NormalizeIdle == input = <<>> /\ normalized = NotCalled
ContrastIdle == fgHex = JsUndefined /\ bgHex = JsUndefined /\ ratio = NotCalled
LevelIdle == ratioIn = 0 /\ levels = [small |-> "none", large |-> "none"]
ActionIdle == form = [fg |-> JsNull, bg |-> JsNull] /\ response = NoResponse
IndexIdle ==
    /\ lang = "ja"
    /\ fgInput = <<>>
    /\ bgInput = <<>>
    /\ fgIsValid = TRUE
    /\ bgIsValid = TRUE
    /\ effectPending = FALSE
    /\ view = [shown |-> FALSE]
    /\ data = NoResponse

(***************************************************************************)
(* Input tokens for the normaliser: padding, leading hashes, a body.       *)
(***************************************************************************)
Pad(n) == [i \in 1..n |-> IF i % 2 = 1 THEN " " ELSE "\t"]
Hashes(n) == [i \in 1..n |-> "#"]
BodyChars == {"a", "F", "g"}
SeqsOfLen(S, n) == [1..n -> S]
UpperCase(s) ==
    [i \in 1..Len(s) |->
        IF \E k \in 1..26 : LowerChars[k] = s[i]
        THEN UpperChars[CHOOSE k \in 1..26 : LowerChars[k] = s[i]]
        ELSE s[i]]
Capitalize(s) == [i \in 1..Len(s) |-> IF i = 1 THEN UpperCase(s)[i] ELSE s[i]]
NameBodies ==
    UNION {{k, UpperCase(k), Capitalize(k)} :
              k \in DOMAIN namedColors \cup DOMAIN ObjectPrototype}
WordBodies ==
    { <<"r", "e", "d", "1">>,
      <<"g", "g", "g", "1", "2", "3">>,
      <<"a", "b", "c", "1", "2", "3">>,
      <<"F", "F", "A", "A", "0", "0">>,
      <<"f", "f", "f", " ", "f", "f", "f">>,
      <<"a", "b", "c", "#", "1", "2", "3">>,
      <<"0", "1", "2", "3", "4", "5", "6", "7">>,
      <<"n", "o", "t", "a", "c", "o", "l", "o", "r">>,
      <<"t", "o", "S", "t", "r", "i", "n", "g">> }
Bodies ==
    UNION {SeqsOfLen(BodyChars, n) : n \in 0..MaxBodyLen}
        \cup NameBodies \cup WordBodies
Tokens ==
    {Pad(l) \o Hashes(h) \o b \o Pad(r) :
        l \in 0..MaxPad, r \in 0..MaxPad, h \in 0..MaxHash, b \in Bodies}

(***************************************************************************)
(* SpecNormalize: one call of normalizeColor on an arbitrary token.        *)
(***************************************************************************)
InitNormalize ==
    /\ pc = "ready"
    /\ input \in Tokens
    /\ normalized = NotCalled
    /\ fgHex = JsUndefined
    /\ bgHex = JsUndefined
    /\ ratio = NotCalled
    /\ LevelIdle
    /\ ActionIdle
    /\ IndexIdle

CallNormalize ==
    /\ pc = "ready"
    /\ normalized' = normalizeColor(input)
    /\ pc' = "done"
    /\ UNCHANGED <<input, fgHex, bgHex, ratio, ratioIn, levels, form, response>>
    /\ UNCHANGED index

NextNormalize == CallNormalize

SpecNormalize == InitNormalize /\ [][NextNormalize]_vars

(***************************************************************************)
(* Properties of normalizeColor.                                           *)
(***************************************************************************)
InvalidColor == Throw("Invalid color")
UpperHex == ("A" :> "a") @@ ("B" :> "b") @@ ("C" :> "c") @@
            ("D" :> "d") @@ ("E" :> "e") @@ ("F" :> "f")
IsHexChar(c) == c \in HexDigits \/ c \in DOMAIN UpperHex
LowerHexChar(c) == IF c \in DOMAIN UpperHex THEN UpperHex[c] ELSE c
IsNormalizedColor(v) ==
    /\ v.t = "string"
    /\ Len(v.s) = 7
    /\ v.s[1] = "#"
    /\ \A i \in 2..7 : v.s[i] \in HexDigits
\* the trimmed, lower-cased token is a table key or "#"-optional six hex digits
IsValidToken(in) ==
    LET val == toLowerCase(trim(in))
        digits == IF startsWithHash(val) THEN Tail(val) ELSE val
    IN  \/ val \in DOMAIN namedColors
        \/ (Len(digits) = 6 /\ \A i \in 1..6 : digits[i] \in HexDigits)
LeadingHashes(s) == Len(s) - Len(StripHashes(s))

\* C1: once normalizeColor has been called on a token that is neither a
\* key of the named-colour table nor "#"-optional six hex digits (after
\* trimming and lower-casing), the call has failed with "Invalid color".
C1_InvalidTokenFails ==
    (pc = "done" /\ ~IsValidToken(input)) => normalized = InvalidColor

\* C2: every value normalizeColor returns is a NormalizedColor: a string of
\* 7 characters, "#" followed by six lower-case hex digits.
C2_ResultIsNormalizedColor ==
    (pc = "done" /\ ~normalized.threw) => IsNormalizedColor(normalized.val)

\* C3 as stated: for a token whose body is not a named colour, the result
\* is that of the body with every leading "#" stripped, whatever the number
\* of leading "#" characters.
C3_AnyNumberOfHashes ==
    pc = "done" =>
        LET val == toLowerCase(trim(input))
            body == StripHashes(val)
        IN  ~Truthy(namedColorsGet(body)) => normalized = normalizeColor(body)

\* C3 amended: for a token whose body misses the named-colour lookup, the
\* forms with no and with one leading "#" give the same outcome, and every
\* form with two or more leading "#" fails with "Invalid color".
C3_AtMostOneHash ==
    pc = "done" =>
        LET val == toLowerCase(trim(input))
            body == StripHashes(val)
            h == LeadingHashes(val)
        IN  /\ h >= 2 => normalized = InvalidColor
            /\ (h = 0 /\ ~Truthy(namedColorsGet(body)))
                   => normalized = normalizeColor(<<"#">> \o body)
            /\ (h = 1 /\ ~Truthy(namedColorsGet(body)))
                   => normalized = normalizeColor(body)

\* C3 witness: "##abc123" has been rejected.
C3_Witness ==
    /\ pc = "done"
    /\ input = <<"#", "#", "a", "b", "c", "1", "2", "3">>
    /\ normalized = InvalidColor

NamedColorCases ==
    UNION {{[token |-> Pad(l) \o v \o Pad(r), key |-> k] :
               l \in 0..MaxPad, r \in 0..MaxPad,
               v \in {k, UpperCase(k), Capitalize(k)}} :
           k \in DOMAIN namedColors}

\* C8: a key of the named-colour table, in lower, upper or capitalised
\* case and with any white space around it, normalises to exactly the
\* table's value for that key.
C8_NamedColorLookup ==
    pc = "done" =>
        \A c \in NamedColorCases :
            input = c.token => normalized = Return(JsString(namedColors[c.key]))

\* C8 witness: the padded upper-case name " ORANGE " has been looked up.
C8_Witness ==
    /\ pc = "done"
    /\ input = <<" ", "O", "R", "A", "N", "G", "E", " ">>
    /\ normalized = Return(JsString(<<"#", "f", "f", "a", "5", "0", "0">>))

\* C9: six hex digits in any letter case, with or without one leading "#",
\* normalise to "#" followed by the same digits in lower case (so both
\* forms agree), and three hex digits, with or without "#", are rejected.
C9_SixHexDigits ==
    pc = "done" =>
        LET digits == IF startsWithHash(input) THEN Tail(input) ELSE input
            allHex == \A i \in 1..Len(digits) : IsHexChar(digits[i])
        IN  /\ (Len(digits) = 6 /\ allHex) =>
                normalized = Return(JsString(
                    <<"#">> \o [i \in 1..6 |-> LowerHexChar(digits[i])]))
            /\ (Len(digits) = 3 /\ allHex) => normalized = InvalidColor

\* C9 witness: upper-case six digits without "#" have been normalised.
C9_Witness ==
    /\ pc = "done"
    /\ input = <<"F", "F", "A", "A", "0", "0">>
    /\ normalized = Return(JsString(<<"#", "f", "f", "a", "a", "0", "0">>))

(***************************************************************************)
(* Real arithmetic.  A luminance or a linear channel intensity x is the    *)
(* integer floor(x * Unit); a contrast ratio r is floor(r * RatioUnit).    *)
(* Products are split so that no intermediate value leaves 32 bits.        *)
(***************************************************************************)
Unit == 1000000
RatioUnit == 1000

Max(a, b) == IF a >= b THEN a ELSE b
Min(a, b) == IF a <= b THEN a ELSE b

\* floor(a * b / Unit) for a, b in 0..Unit
Mul(a, b) ==
    LET t1 == (a \div 1000) * b
        t0 == (a % 1000) * b
    IN  (t1 \div 1000) + (((t1 % 1000) * 1000 + t0) \div Unit)

\* floor(a * Unit / c) for 0 <= a <= c < 2000000
Div(a, c) ==
    LET q1 == (a * 1000) \div c
        r1 == (a * 1000) % c
    IN  q1 * 1000 + ((r1 * 1000) \div c)

Pow5(r) == Mul(Mul(Mul(r, r), Mul(r, r)), r)

\* the largest r in lo..hi with r^5 <= y, given lo^5 <= y
RECURSIVE Root5(_, _, _)
Root5(lo, hi, y) ==
    IF lo = hi THEN lo
    ELSE LET mid == (lo + hi + 1) \div 2
         IN  IF Pow5(mid) <= y THEN Root5(mid, hi, y) ELSE Root5(lo, mid - 1, y)

\* x ** 2.4 = x^2 * (x^2)^(1/5) for x in 0..Unit
Pow24(x) == LET y == Mul(x, x) IN Mul(y, Root5(0, Unit, y))

(***************************************************************************)
(* toLinear, relativeLuminance, contrastRatio                              *)
(***************************************************************************)
\* v = value / 255; v <= 0.03928 ? v / 12.92 : ((v + 0.055) / 1.055) ** 2.4
\*   v <= 0.03928              iff  value * 100000 <= 3928 * 255
\*   v / 12.92                  =   value * 5 / 16473
\*   (v + 0.055) / 1.055        =   (40 * value + 561) / 10761
toLinear(value) ==
    IF value * 100000 <= 3928 * 255
    THEN (value * 5 * Unit) \div 16473
    ELSE Pow24(Div(40 * value + 561, 10761))

HexChars == <<"0", "1", "2", "3", "4", "5", "6", "7", "8", "9",
              "a", "b", "c", "d", "e", "f">>
HexValue(c) == (CHOOSE i \in 1..16 : HexChars[i] = c) - 1

\* Number.parseInt(hex.slice(from, from + 2), 16), hex.slice counting from 0
parseHexByte(hex, from) == 16 * HexValue(hex[from + 1]) + HexValue(hex[from + 2])

\* 0.2126 * R + 0.7152 * G + 0.0722 * B
Weighted(R, G, B) ==
    2126 * (R \div 10000) + 7152 * (G \div 10000) + 722 * (B \div 10000)
        + ((2126 * (R % 10000) + 7152 * (G % 10000) + 722 * (B % 10000))
              \div 10000)

\* a value that is not a string has no slice method: the call throws
relativeLuminance(hex) ==
    IF hex.t # "string" THEN Throw("TypeError: hex.slice is not a function")
    ELSE LET r == parseHexByte(hex.s, 1)
             g == parseHexByte(hex.s, 3)
             b == parseHexByte(hex.s, 5)
         IN  Return(JsNumber(Weighted(toLinear(r), toLinear(g), toLinear(b))))

\* (fgLum + 0.05) / (bgLum + 0.05), without the ordering of the luminances
contrastRatioUnordered(fg, bg) ==
    LET fgLum == relativeLuminance(fg)
        bgLum == relativeLuminance(bg)
    IN  IF fgLum.threw THEN fgLum
        ELSE IF bgLum.threw THEN bgLum
        ELSE Return(JsNumber(
                 ((fgLum.val.s[1] + Unit \div 20) * RatioUnit)
                     \div (bgLum.val.s[1] + Unit \div 20)))

contrastRatio(fg, bg) ==
    LET fgLum == relativeLuminance(fg)
        bgLum == relativeLuminance(bg)
    IN  IF fgLum.threw THEN fgLum
        ELSE IF bgLum.threw THEN bgLum
        ELSE LET L1 == Max(fgLum.val.s[1], bgLum.val.s[1])
                 L2 == Min(fgLum.val.s[1], bgLum.val.s[1])
             IN  Return(JsNumber(
                     ((L1 + Unit \div 20) * RatioUnit) \div (L2 + Unit \div 20)))

(***************************************************************************)
(* SpecContrast: one call of contrastRatio on two normalised colours.      *)
(***************************************************************************)
ChannelSample == {<<"0", "0">>, <<"0", "a">>, <<"0", "b">>, <<"8", "0">>,
                  <<"f", "f">>}
ColorSample ==
    {namedColors[k] : k \in DOMAIN namedColors}
        \cup {<<"#">> \o r \o g \o b :
                 r \in ChannelSample, g \in ChannelSample, b \in ChannelSample}

InitContrast ==
    /\ pc = "ready"
    /\ NormalizeIdle
    /\ fgHex \in {JsString(c) : c \in ColorSample}
    /\ bgHex \in {JsString(c) : c \in ColorSample}
    /\ ratio = NotCalled
    /\ LevelIdle
    /\ ActionIdle
    /\ IndexIdle

CallContrast ==
    /\ pc = "ready"
    /\ ratio' = contrastRatio(fgHex, bgHex)
    /\ pc' = "done"
    /\ UNCHANGED <<input, normalized, fgHex, bgHex, ratioIn, levels, form, response>>
    /\ UNCHANGED index

NextContrast == CallContrast

SpecContrast == InitContrast /\ [][NextContrast]_vars

White == JsString(<<"#", "f", "f", "f", "f", "f", "f">>)
Black == JsString(<<"#", "0", "0", "0", "0", "0", "0">>)

\* C4: the ratio computed for (fg, bg) is the ratio of (bg, fg).
C4_Symmetric ==
    pc = "done" => ratio = contrastRatio(bgHex, fgHex)

\* C4 witness: two colours of different luminance have been compared,
\* darker one first.
C4_Witness ==
    /\ pc = "done"
    /\ fgHex = Black
    /\ bgHex = JsString(<<"#", "f", "f", "a", "5", "0", "0">>)
    /\ ~ratio.threw
    /\ ratio.val.s[1] > RatioUnit

\* C5: the ratio of two normalised colours lies in [1, 21]; it is 1 for a
\* colour against itself and 21 for white against black, and every
\* relative luminance lies in [0, 1].
C5_Range ==
    pc = "done" =>
        /\ ~ratio.threw
        /\ ratio.val.t = "number"
        /\ ratio.val.s[1] >= 1 * RatioUnit
        /\ ratio.val.s[1] <= 21 * RatioUnit
        /\ fgHex = bgHex => ratio.val.s[1] = 1 * RatioUnit
        /\ {fgHex, bgHex} = {White, Black} => ratio.val.s[1] = 21 * RatioUnit
        /\ relativeLuminance(fgHex).val.s[1] \in 0..Unit
        /\ relativeLuminance(bgHex).val.s[1] \in 0..Unit

\* C5 witness: black on white has been given the ratio 21.
C5_Witness ==
    /\ pc = "done"
    /\ fgHex = Black
    /\ bgHex = White
    /\ ratio = Return(JsNumber(21 * RatioUnit))

(***************************************************************************)
(* complianceLevel, complianceLevelLarge                                   *)
(***************************************************************************)
\* thresholds 7, 4.5 and 3 in units of 1 / RatioUnit
Seven == 7 * RatioUnit
FourAndAHalf == (9 * RatioUnit) \div 2
Three == 3 * RatioUnit

\* complianceLevel with exclusive lower bounds
complianceLevelExclusive(r) ==
    IF r > Seven THEN "AAA" ELSE IF r > FourAndAHalf THEN "AA" ELSE "Fail"

complianceLevel(r) ==
    IF r >= Seven THEN "AAA" ELSE IF r >= FourAndAHalf THEN "AA" ELSE "Fail"

complianceLevelLarge(r) ==
    IF r >= FourAndAHalf THEN "AAA" ELSE IF r >= Three THEN "AA" ELSE "Fail"

(***************************************************************************)
(* SpecLevel: both classifications of an arbitrary ratio.                  *)
(***************************************************************************)
MaxRatio == 22

InitLevel ==
    /\ pc = "ready"
    /\ NormalizeIdle
    /\ ContrastIdle
    /\ ActionIdle
    /\ IndexIdle
    /\ ratioIn \in 0..(MaxRatio * RatioUnit)
    /\ levels = [small |-> "none", large |-> "none"]

CallComplianceLevel ==
    /\ levels.small = "none"
    /\ levels' = [levels EXCEPT !.small = complianceLevel(ratioIn)]
    /\ UNCHANGED <<pc, input, normalized, fgHex, bgHex, ratio, ratioIn,
                   form, response>>
    /\ UNCHANGED index

CallComplianceLevelLarge ==
    /\ levels.large = "none"
    /\ levels' = [levels EXCEPT !.large = complianceLevelLarge(ratioIn)]
    /\ UNCHANGED <<pc, input, normalized, fgHex, bgHex, ratio, ratioIn,
                   form, response>>
    /\ UNCHANGED index

NextLevel == CallComplianceLevel \/ CallComplianceLevelLarge

SpecLevel == InitLevel /\ [][NextLevel]_vars

\* C6: for normal text a ratio >= 7 is AAA, one in [4.5, 7) is AA and a
\* lower one Fail; for large text a ratio >= 4.5 is AAA, one in [3, 4.5) is
\* AA and a lower one Fail; a ratio on a threshold gets the higher tier.
C6_Levels ==
    /\ levels.small # "none" =>
        /\ levels.small = "AAA" <=> ratioIn >= 7000
        /\ levels.small = "AA" <=> (ratioIn >= 4500 /\ ratioIn < 7000)
        /\ levels.small = "Fail" <=> ratioIn < 4500
    /\ levels.large # "none" =>
        /\ levels.large = "AAA" <=> ratioIn >= 4500
        /\ levels.large = "AA" <=> (ratioIn >= 3000 /\ ratioIn < 4500)
        /\ levels.large = "Fail" <=> ratioIn < 3000

\* C6 witness: the ratio 4.5 has been classified AA for normal text and
\* AAA for large text.
C6_Witness ==
    /\ ratioIn = 4500
    /\ levels = [small |-> "AA", large |-> "AAA"]

(***************************************************************************)
(* action: the form handler of the route.                                  *)
(***************************************************************************)
\* formData.get(name)?.toString() || ""
formField(v) == IF v.t = "string" THEN v.s ELSE <<>>

ErrorBody == [error |-> JsString(<<"Invalid input.">>),
              contrastRatio |-> JsUndefined,
              levelSmall |-> JsUndefined, levelLarge |-> JsUndefined,
              fg |-> JsUndefined, bg |-> JsUndefined]

\* action whose failure response keeps what was normalised before the throw
actionPartial(f) ==
    LET fg == normalizeColor(formField(f.fg))
        bg == normalizeColor(formField(f.bg))
        r  == IF fg.threw \/ bg.threw THEN Throw("Invalid color")
              ELSE contrastRatio(fg.val, bg.val)
    IN  IF r.threw
        THEN [status |-> 400,
              body |-> [ErrorBody EXCEPT
                           !.fg = IF fg.threw THEN JsUndefined ELSE fg.val]]
        ELSE [status |-> 200,
              body |-> [error |-> JsUndefined,
                        contrastRatio |-> r.val,
                        levelSmall |-> JsString(<<complianceLevel(r.val.s[1])>>),
                        levelLarge |-> JsString(<<complianceLevelLarge(r.val.s[1])>>),
                        fg |-> fg.val, bg |-> bg.val]]

action(f) ==
    LET fg == normalizeColor(formField(f.fg))
        bg == normalizeColor(formField(f.bg))
        r  == IF fg.threw THEN fg
              ELSE IF bg.threw THEN bg
              ELSE contrastRatio(fg.val, bg.val)
    IN  IF r.threw
        THEN [status |-> 400, body |-> ErrorBody]
        ELSE [status |-> 200,
              body |-> [error |-> JsUndefined,
                        contrastRatio |-> r.val,
                        levelSmall |-> JsString(<<complianceLevel(r.val.s[1])>>),
                        levelLarge |-> JsString(<<complianceLevelLarge(r.val.s[1])>>),
                        fg |-> fg.val, bg |-> bg.val]]

(***************************************************************************)
(* SpecAction: one POST of an arbitrary form.                              *)
(***************************************************************************)
FormTokens ==
    { <<>>,
      <<"#">>,
      <<"r", "e", "d">>,
      <<" ", "W", "h", "i", "t", "e", " ">>,
      <<"r", "e", "d", "1">>,
      <<"#", "g", "g", "g", "1", "2", "3">>,
      <<"#", "f", "f", "f", "f", "f", "f">>,
      <<"#", "0", "0", "0", "0", "0", "0">>,
      <<"F", "F", "A", "A", "0", "0">>,
      <<"#", "#", "a", "b", "c", "1", "2", "3">>,
      <<"f", "f", "f">>,
      <<"n", "o", "t", "a", "c", "o", "l", "o", "r">>,
      <<"c", "o", "n", "s", "t", "r", "u", "c", "t", "o", "r">>,
      <<"_", "_", "p", "r", "o", "t", "o", "_", "_">> }
FormValues == {JsNull} \cup {JsString(tk) : tk \in FormTokens}

InitAction ==
    /\ pc = "ready"
    /\ NormalizeIdle
    /\ ContrastIdle
    /\ LevelIdle
    /\ IndexIdle
    /\ form \in [fg : FormValues, bg : FormValues]
    /\ response = NoResponse

CallAction ==
    /\ pc = "ready"
    /\ response' = action(form)
    /\ pc' = "done"
    /\ UNCHANGED <<input, normalized, fgHex, bgHex, ratio, ratioIn, levels, form>>
    /\ UNCHANGED index

NextAction == CallAction

SpecAction == InitAction /\ [][NextAction]_vars

\* C7: when the foreground or the background field is not a valid colour
\* (a missing or empty field included), the response is the invalid-input
\* error alone: status 400, no ratio, no levels, no normalised colour.
C7_InvalidFormFails ==
    pc = "done" =>
        ((~IsValidToken(formField(form.fg)) \/ ~IsValidToken(formField(form.bg)))
            => response = [status |-> 400, body |-> ErrorBody])

\* C7 witness: a valid foreground with an invalid background has been
\* answered with the error alone.
C7_Witness ==
    /\ pc = "done"
    /\ form.fg = JsString(<<"r", "e", "d">>)
    /\ form.bg = JsString(<<"n", "o", "t", "a", "c", "o", "l", "o", "r">>)
    /\ response.status = 400
    /\ response.body.fg = JsUndefined
    /\ response.body.contrastRatio = JsUndefined

(***************************************************************************)
(* Index: the route component with its live preview.                       *)
(*                                                                         *)
(* view is the output of the last render.  A state update re-renders with  *)
(* the validity flags of the previous commit; the effect on [fgInput,      *)
(* bgInput] runs after that commit and, by setting the flags, renders      *)
(* again.  React flushes a pending effect before it handles the next       *)
(* event, so the handlers wait for it.                                     *)
(***************************************************************************)
DefaultFg == <<"#", "f", "f", "f", "f", "f", "f">>
DefaultBg == <<"#", "0", "0", "0", "0", "0", "0">>
DefaultRatio == JsNumber(21 * RatioUnit)

\* the body of Index up to its return, and the preview branch of the JSX
Render(fgIn, bgIn, fgV, bgV, lng) ==
    LET fg == normalizeColor(fgIn)
        bg == normalizeColor(bgIn)
        r  == IF fg.threw THEN fg
              ELSE IF bg.threw THEN bg
              ELSE contrastRatio(fg.val, bg.val)
    IN  [shown |-> fgV /\ bgV,
         lang |-> lng,
         fgNormalized |-> IF fg.threw THEN JsString(DefaultFg) ELSE fg.val,
         bgNormalized |-> IF fg.threw \/ bg.threw THEN JsString(DefaultBg)
                          ELSE bg.val,
         ratio |-> IF r.threw THEN DefaultRatio ELSE r.val,
         levelSmall |-> IF r.threw THEN "AAA" ELSE complianceLevel(r.val.s[1]),
         levelLarge |-> IF r.threw THEN "AAA"
                        ELSE complianceLevelLarge(r.val.s[1])]

\* what a user may put into a colour field
UiTokens ==
    { DefaultFg, DefaultBg,
      <<"r", "e", "d">>,
      <<"f", "f">>,
      <<"c", "o", "n", "s", "t", "r", "u", "c", "t", "o", "r">> }

\* the action data present at the first render: none, or the response to a
\* document POST of the form
InitialData ==
    {NoResponse} \cup
        {action([fg |-> JsString(f), bg |-> JsString(b)]) :
            f \in UiTokens, b \in UiTokens}

Init ==
    /\ pc = "ready"
    /\ NormalizeIdle
    /\ ContrastIdle
    /\ LevelIdle
    /\ ActionIdle
    /\ data \in InitialData
    /\ lang = "ja"
    /\ fgInput = IF data.status = 200 THEN data.body.fg.s ELSE DefaultFg
    /\ bgInput = IF data.status = 200 THEN data.body.bg.s ELSE DefaultBg
    /\ fgIsValid = TRUE
    /\ bgIsValid = TRUE
    /\ effectPending = TRUE
    /\ view = Render(fgInput, bgInput, TRUE, TRUE, "ja")

\* onChange of the foreground field
ChangeFg(tk) ==
    /\ ~effectPending
    /\ tk # fgInput
    /\ fgInput' = tk
    /\ effectPending' = TRUE
    /\ view' = Render(tk, bgInput, fgIsValid, bgIsValid, lang)
    /\ UNCHANGED <<lang, bgInput, fgIsValid, bgIsValid, data>>
    /\ UNCHANGED harness

\* onChange of the background field
ChangeBg(tk) ==
    /\ ~effectPending
    /\ tk # bgInput
    /\ bgInput' = tk
    /\ effectPending' = TRUE
    /\ view' = Render(fgInput, tk, fgIsValid, bgIsValid, lang)
    /\ UNCHANGED <<lang, fgInput, fgIsValid, bgIsValid, data>>
    /\ UNCHANGED harness

resetColors ==
    /\ ~effectPending
    /\ fgInput' = DefaultFg
    /\ bgInput' = DefaultBg
    /\ effectPending' = (fgInput # DefaultFg \/ bgInput # DefaultBg)
    /\ view' = Render(DefaultFg, DefaultBg, fgIsValid, bgIsValid, lang)
    /\ UNCHANGED <<lang, fgIsValid, bgIsValid, data>>
    /\ UNCHANGED harness

toggleLanguage ==
    /\ ~effectPending
    /\ lang' = IF lang = "ja" THEN "en" ELSE "ja"
    /\ view' = Render(fgInput, bgInput, fgIsValid, bgIsValid, lang')
    /\ UNCHANGED <<fgInput, bgInput, fgIsValid, bgIsValid, effectPending, data>>
    /\ UNCHANGED harness

\* the useEffect on [fgInput, bgInput], and the render its updates cause
ValidityEffect ==
    /\ effectPending
    /\ fgIsValid' = ~normalizeColor(fgInput).threw
    /\ bgIsValid' = ~normalizeColor(bgInput).threw
    /\ effectPending' = FALSE
    /\ view' = Render(fgInput, bgInput, fgIsValid', bgIsValid', lang)
    /\ UNCHANGED <<lang, fgInput, bgInput, data>>
    /\ UNCHANGED harness

\* the submit button, enabled while both flags are set, posts the form
Submit ==
    /\ ~effectPending
    /\ fgIsValid /\ bgIsValid
    /\ data' = action([fg |-> JsString(fgInput), bg |-> JsString(bgInput)])
    /\ UNCHANGED <<lang, fgInput, bgInput, fgIsValid, bgIsValid, effectPending,
                   view>>
    /\ UNCHANGED harness

Next ==
    \/ \E tk \in UiTokens : ChangeFg(tk)
    \/ \E tk \in UiTokens : ChangeBg(tk)
    \/ resetColors
    \/ toggleLanguage
    \/ ValidityEffect
    \/ Submit

Spec == Init /\ [][Next]_vars

\* C10: whenever the rendered output shows the preview ratio and levels,
\* the current fgInput and bgInput both normalise to colours and the ratio
\* and levels shown are the ones computed from them.
C10_PreviewIsCurrent ==
    view.shown =>
        LET fg == normalizeColor(fgInput)
            bg == normalizeColor(bgInput)
        IN  /\ IsValidToken(fgInput)
            /\ IsValidToken(bgInput)
            /\ view.ratio = contrastRatio(fg.val, bg.val).val
            /\ view.levelSmall = complianceLevel(view.ratio.s[1])
            /\ view.levelLarge = complianceLevelLarge(view.ratio.s[1])

====
